---------------------------- MODULE Spec2Model ----------------------------
(***************************************************************************)
(* bencode2json: a recursive-descent converter from one bencoded value on  *)
(* stdin to JSON on stdout (src/bencode2json.c).                           *)
(*                                                                         *)
(* Bytes are the integers 0..255.  A C `char` holds -128..127 on a build   *)
(* where char is signed and 0..255 where it is unsigned; which one is      *)
(* implementation-defined, so it is chosen in Init (charSigned).           *)
(* The C call stack is the sequence `stack` of frames, the top one last.   *)
(***************************************************************************)
EXTENDS Integers, Sequences, FiniteSets, TLC

(***************************************************************************)
(* Byte values of the character literals the program uses.                 *)
(***************************************************************************)
CH_i == 105
CH_l == 108
CH_d == 100
CH_e == 101
CH_colon == 58
CH_comma == 44
CH_quote == 34
CH_backslash == 92
CH_space == 32
CH_lbracket == 91
CH_rbracket == 93
CH_lbrace == 123
CH_rbrace == 125
CH_u == 117
CH_0 == 48
CH_9 == 57
CH_plus == 43
CH_minus == 45
CH_a == 97
CH_A == 65
CH_z == 122
CH_Z == 90
CH_tab == 9
CH_cr == 13
CH_tilde == 126
CH_bang == 33

\* EOF as getc returns it.
EOF == -1
\* #define MAX_INT_LEN 50
MAX_INT_LEN == 50
\* INT_MAX of a 32-bit int, the range of atoi's result.
INT_MAX == 2147483647

VARIABLES
    input,       \* the bytes of stdin
    charSigned,  \* whether plain char is signed on this build
    pos,         \* index in input of the next byte getc reads from the file
    slot,        \* stdin's pushback: the bytes ungetc has put back, newest first
    output,      \* the bytes written to stdout
    stack,       \* the call stack, main first
    status,      \* "running", "exit" (main returned 0) or "crashed"
    eofReads,    \* how many get_character calls returned EOF
    lastGot,     \* the char the most recent get_character returned (EOF - 1: none)
    ungets,      \* unget_character calls since the most recent get_character
    lastUngot,   \* the char passed to the most recent unget_character
    lenBufIdx    \* highest index of lenBuf written by the most recent read_count

vars == <<input, charSigned, pos, slot, output, stack, status, eofReads,
          lastGot, ungets, lastUngot, lenBufIdx>>

\* No get_character call yet.
NoChar == EOF - 1

(***************************************************************************)
(* The three I/O primitives.                                               *)
(***************************************************************************)

\* int -> char conversion of `char c = get_character()`.
ToChar(v) ==
    IF charSigned
      THEN (IF v >= 128 THEN v - 256 ELSE v)
      ELSE v % 256

\* char -> unsigned char, as putc and ungetc store their argument.
ToByte(c) == c % 256

\* get_character that leaves the pushback in place.
GetCharacterPeek(sl, p) ==
    IF sl # << >>
      THEN [raw |-> Head(sl), slot |-> sl, pos |-> p, eof |-> FALSE]
      ELSE IF p <= Len(input)
        THEN [raw |-> input[p], slot |-> sl, pos |-> p + 1, eof |-> FALSE]
        ELSE [raw |-> EOF, slot |-> sl, pos |-> p, eof |-> TRUE]

\* get_character(): getc(stdin).  The pushback is read first, then the file;
\* past the end of the file getc returns EOF.
GetCharacter(sl, p) ==
    IF sl # << >>
      THEN [raw |-> Head(sl), slot |-> Tail(sl), pos |-> p, eof |-> FALSE]
      ELSE IF p <= Len(input)
        THEN [raw |-> input[p], slot |-> sl, pos |-> p + 1, eof |-> FALSE]
        ELSE [raw |-> EOF, slot |-> sl, pos |-> p, eof |-> TRUE]

\* unget_character that loses the byte.
UngetCharacterLost(sl, c) == sl

\* unget_character that does not push an 'e' back.
UngetCharacterDropsE(sl, c) ==
    IF c = EOF \/ c = CH_e THEN sl ELSE <<ToByte(c)>> \o sl

\* unget_character(c): ungetc(c, stdin).  ungetc of the value EOF fails and
\* leaves the stream unchanged; any other value is stored as unsigned char.
UngetCharacter(sl, c) ==
    IF c = EOF THEN sl ELSE <<ToByte(c)>> \o sl

\* output_character(c): putc(c, stdout) appends (unsigned char)c.
OutputCharacter(out, c) == Append(out, ToByte(c))


(***************************************************************************)
(* <ctype.h> in the "C" locale (the program never calls setlocale).        *)
(***************************************************************************)

\* isalnum for an argument representable as unsigned char.
IsAlnum(b) ==
    \/ CH_0 <= b /\ b <= CH_9
    \/ CH_A <= b /\ b <= CH_Z
    \/ CH_a <= b /\ b <= CH_z

\* ispunct for an argument representable as unsigned char: a printing
\* character that is neither the space nor alphanumeric.
IsPunct(b) == CH_bang <= b /\ b <= CH_tilde /\ ~IsAlnum(b)

\* The results `isalnum(c) || ispunct(c) || c == ' '` can have for the char c.
\* isalnum and ispunct are defined for the values of unsigned char and for
\* EOF only: a negative char other than EOF is undefined behaviour, so
\* either result is possible there.
PlainOutcomes(c) ==
    IF c < EOF
      THEN BOOLEAN
      ELSE {c >= 0 /\ (IsAlnum(c) \/ IsPunct(c) \/ c = CH_space)}

\* One digit of sprintf's %x.
HexDigit(n) == IF n < 10 THEN CH_0 + n ELSE CH_a + (n - 10)

\* The escaping with '\\' taken for a plain char.
EscapeNoBackslash(c, plain) ==
    IF c = CH_quote
      THEN <<CH_backslash, ToByte(c)>>
      ELSE IF plain
        THEN <<ToByte(c)>>
        ELSE <<CH_backslash, CH_u, CH_0, CH_0,
               HexDigit(ToByte(c) \div 16), HexDigit(ToByte(c) % 16)>>

\* The bytes convert_string writes for one payload char c, `plain` being the
\* result of the alphanumeric/punctuation/space test.
Escape(c, plain) ==
    IF c = CH_quote \/ c = CH_backslash
      THEN <<CH_backslash, ToByte(c)>>
      ELSE IF plain
        THEN <<ToByte(c)>>
        ELSE <<CH_backslash, CH_u, CH_0, CH_0,
               HexDigit(ToByte(c) \div 16), HexDigit(ToByte(c) % 16)>>

(***************************************************************************)
(* atoi: optional white space, an optional sign, then decimal digits up to *)
(* the first other char.  A value outside the range of int is undefined    *)
(* behaviour (ub).                                                         *)
(***************************************************************************)
IsSpace(c) == c = CH_space \/ (CH_tab <= c /\ c <= CH_cr)

IsDigit(c) == CH_0 <= c /\ c <= CH_9

RECURSIVE AtoiSkip(_, _)
AtoiSkip(buf, k) ==
    IF k <= Len(buf) /\ IsSpace(buf[k]) THEN AtoiSkip(buf, k + 1) ELSE k

RECURSIVE AtoiDigits(_, _, _, _)
AtoiDigits(buf, k, acc, neg) ==
    IF k > Len(buf) \/ ~IsDigit(buf[k])
      THEN [val |-> IF neg THEN 0 - acc ELSE acc, ub |-> FALSE]
      ELSE LET d == buf[k] - CH_0
           IN  IF acc > (INT_MAX - d) \div 10
                 THEN IF /\ neg
                         /\ acc = INT_MAX \div 10
                         /\ d = (INT_MAX % 10) + 1
                         /\ (k + 1 > Len(buf) \/ ~IsDigit(buf[k + 1]))
                        THEN [val |-> (0 - INT_MAX) - 1, ub |-> FALSE]
                        ELSE [val |-> 0, ub |-> TRUE]
                 ELSE AtoiDigits(buf, k + 1, acc * 10 + d, neg)

Atoi(buf) ==
    LET k == AtoiSkip(buf, 1)
    IN  IF k <= Len(buf) /\ buf[k] = CH_minus
          THEN AtoiDigits(buf, k + 1, 0, TRUE)
          ELSE IF k <= Len(buf) /\ buf[k] = CH_plus
            THEN AtoiDigits(buf, k + 1, 0, FALSE)
            ELSE AtoiDigits(buf, k, 0, FALSE)

\* What atoi can return when the value does not fit in an int: the low bits
\* of a saturated or wrapped long, of either sign.
AtoiUBOutcomes == {0 - 1, 0, INT_MAX}

(***************************************************************************)
(* read_count.  Its loop calls get_character until ':' is read or          *)
(* MAX_INT_LEN chars are stored in lenBuf, so it makes at most MAX_INT_LEN *)
(* calls; the k-th of them returns KthGet(sl, p, k).                       *)
(***************************************************************************)

\* What the k-th of consecutive get_character calls returns, from pushback
\* sl and file position p: the pushback first, then the file, then EOF.
KthGet(sl, p, k) ==
    IF k <= Len(sl)
      THEN sl[k]
      ELSE IF p + (k - Len(sl)) - 1 <= Len(input)
        THEN input[p + (k - Len(sl)) - 1]
        ELSE EOF

\* The pushback left in place by the calls.
SlotAfterKept(sl, k) == sl

\* The pushback, the file position and the number of EOF results after k
\* consecutive get_character calls.
SlotAfter(sl, k) == IF k >= Len(sl) THEN << >> ELSE SubSeq(sl, k + 1, Len(sl))

PosAfter(sl, p, k) ==
    IF k <= Len(sl)
      THEN p
      ELSE IF p + (k - Len(sl)) - 1 <= Len(input)
        THEN p + (k - Len(sl))
        ELSE Len(input) + 1

EofsAfter(sl, p, k) == Cardinality({j \in 1..k : KthGet(sl, p, j) = EOF})

\* The number of get_character calls read_count's loop makes: up to the
\* first ':' (`if (c == ':') break`), and MAX_INT_LEN when none of the first
\* MAX_INT_LEN chars is ':' (`if (lenBufLen >= MAX_INT_LEN) break`).
ReadCountCalls(sl, p) ==
    LET colons == {k \in 1..MAX_INT_LEN : ToChar(KthGet(sl, p, k)) = CH_colon}
    IN  IF colons = {}
          THEN MAX_INT_LEN
          ELSE CHOOSE k \in colons : \A j \in colons : k <= j

\* read_count's loop: every char read but the ':' is stored in lenBuf.
ReadCountLoop(sl, p) ==
    LET calls == ReadCountCalls(sl, p)
        last == ToChar(KthGet(sl, p, calls))
        lenBufLen == IF last = CH_colon THEN calls - 1 ELSE calls
    IN  [slot |-> SlotAfter(sl, calls), pos |-> PosAfter(sl, p, calls),
         eofs |-> EofsAfter(sl, p, calls), last |-> last,
         lenBuf |-> [k \in 1..lenBufLen |-> ToChar(KthGet(sl, p, k))]]

\* read_count(): the loop, then lenBuf[lenBufLen] = 0 (idx is the index
\* written) and atoi(lenBuf).  (r ranges over the one result of the loop.)
ReadCount(sl, p) ==
    CHOOSE x \in {[slot |-> r.slot, pos |-> r.pos, eofs |-> r.eofs,
                   last |-> r.last, idx |-> Len(r.lenBuf), n |-> Atoi(r.lenBuf)] :
                  r \in {ReadCountLoop(sl, p)}} : TRUE

(***************************************************************************)
(* The call stack.  A frame is one active call: its function, the place    *)
(* it resumes at, and its locals (output: the uint8_t flag of convert_list *)
(* and convert_dictionary; count and i: those of convert_string).  inAt    *)
(* and outAt are the numbers of bytes that had been consumed from stdin    *)
(* and written to stdout when the call was made.                           *)
(***************************************************************************)
Frame(fn, pc, inAt, outAt) ==
    [fn |-> fn, pc |-> pc, output |-> 0, count |-> 0, i |-> 0,
     inAt |-> inAt, outAt |-> outAt]

\* The number of bytes consumed from stdin: those read and not pushed back.
Consumed(p, sl) == (p - 1) - Len(sl)

Top == stack[Len(stack)]

Running(fn, pc) ==
    /\ status = "running"
    /\ stack # << >>
    /\ Top.fn = fn
    /\ Top.pc = pc

\* The stack with its top frame replaced by f.
SetTop(f) == [stack EXCEPT ![Len(stack)] = f]

\* The stack after the top frame moves to pc and calls fn, pos, slot and
\* output having their new values.
Call(pc, fn, entry) ==
    Append(SetTop([Top EXCEPT !.pc = pc]),
           Frame(fn, entry, Consumed(pos', slot'), Len(output')))

\* The stack after the top frame returns.
Return == SubSeq(stack, 1, Len(stack) - 1)

\* The loop test stopping one iteration early.
BelowOffByOne(i, count) == count < 0 \/ i + 1 < count

\* `i < count` in convert_string, a comparison of two size_t.  count holds
\* atoi's int: a negative int n is the size_t 2^64 + n.  A size_t v is kept
\* as v when v <= INT_MAX and as v - 2^64 when v >= 2^64 - 2^31, so of two
\* values of the same sign the smaller number is the smaller size_t, and a
\* negative one is above every non-negative one.
Below(i, count) == IF (i < 0) = (count < 0) THEN i < count ELSE count < 0

\* The ',' written whatever the flag, and never written.
SeparatorAlways(out, flag) == OutputCharacter(out, CH_comma)

SeparatorNever(out, flag) == out

\* The ',' convert_list and convert_dictionary write before an element when
\* their output flag is set.

Separator(out, flag) == IF flag # 0 THEN OutputCharacter(out, CH_comma) ELSE out

\* The history of the I/O calls after a step that called get_character and
\* got c, and then called unget_character(c) or not.
Got(c, ungot) ==
    /\ lastGot' = c
    /\ ungets' = (IF ungot THEN 1 ELSE 0)
    /\ lastUngot' = (IF ungot THEN c ELSE lastUngot)

\* The get_character calls that return EOF are counted up to MaxEofReads.
\* A program that still runs then is reading past the end of its input for
\* good: from there on stdout is no longer recorded, so that what remains
\* of the state is what decides the program's next steps.
MaxEofReads == 64

CountEofs(n) ==
    eofReads' = (IF eofReads + n >= MaxEofReads THEN MaxEofReads ELSE eofReads + n)

Recorded(out) == IF eofReads >= MaxEofReads THEN output ELSE out

(***************************************************************************)
(* main: one convert_value call, then return 0.                            *)
(***************************************************************************)
MainCall ==
    /\ Running("main", "call")
    /\ UNCHANGED <<input, charSigned, pos, slot, output, status, eofReads,
                   lastGot, ungets, lastUngot, lenBufIdx>>
    /\ stack' = Call("return", "convert_value", "start")

MainReturn ==
    /\ Running("main", "return")
    /\ stack' = Return
    /\ status' = "exit"
    /\ UNCHANGED <<input, charSigned, pos, slot, output, eofReads,
                   lastGot, ungets, lastUngot, lenBufIdx>>

(***************************************************************************)
(* convert_value: read the type tag and call the converter; any tag other  *)
(* than 'i', 'l', 'd' is pushed back for convert_string.                   *)
(***************************************************************************)
ConvertValue ==
    /\ Running("convert_value", "start")
    /\ UNCHANGED <<input, charSigned, output, status, lenBufIdx>>
    /\ \E g \in {GetCharacter(slot, pos)} : \E c \in {ToChar(g.raw)} :
           /\ CountEofs(IF g.eof THEN 1 ELSE 0)
           /\ pos' = g.pos
           /\ IF c = CH_i
                THEN /\ slot' = g.slot
                     /\ Got(c, FALSE)
                     /\ stack' = Call("return", "convert_integer", "loop")
                ELSE IF c = CH_l
                  THEN /\ slot' = g.slot
                       /\ Got(c, FALSE)
                       /\ stack' = Call("return", "convert_list", "open")
                  ELSE IF c = CH_d
                    THEN /\ slot' = g.slot
                         /\ Got(c, FALSE)
                         /\ stack' = Call("return", "convert_dictionary", "open")
                    ELSE /\ slot' = UngetCharacter(g.slot, c)
                         /\ Got(c, TRUE)
                         /\ stack' = Call("return", "convert_string", "read_count")

ConvertValueReturn ==
    /\ Running("convert_value", "return")
    /\ stack' = Return
    /\ UNCHANGED <<input, charSigned, pos, slot, output, status, eofReads,
                   lastGot, ungets, lastUngot, lenBufIdx>>

(***************************************************************************)
(* convert_integer: one iteration of the copy loop.                        *)
(***************************************************************************)

\* The loop writing each char before it tests it.
ConvertIntegerEchoesE ==
    /\ Running("convert_integer", "loop")
    /\ \E g \in {GetCharacter(slot, pos)} : \E c \in {ToChar(g.raw)} :
           /\ CountEofs(IF g.eof THEN 1 ELSE 0)
           /\ pos' = g.pos
           /\ slot' = g.slot
           /\ Got(c, FALSE)
           /\ output' = Recorded(OutputCharacter(output, c))
           /\ stack' = (IF c = CH_e THEN Return ELSE stack)
    /\ UNCHANGED <<input, charSigned, status, lenBufIdx>>

ConvertInteger ==
    /\ Running("convert_integer", "loop")
    /\ \E g \in {GetCharacter(slot, pos)} : \E c \in {ToChar(g.raw)} :
           /\ CountEofs(IF g.eof THEN 1 ELSE 0)
           /\ pos' = g.pos
           /\ slot' = g.slot
           /\ Got(c, FALSE)
           /\ IF c = CH_e
                THEN /\ stack' = Return
                     /\ output' = output
                ELSE /\ stack' = stack
                     /\ output' = Recorded(OutputCharacter(output, c))
    /\ UNCHANGED <<input, charSigned, status, lenBufIdx>>

(***************************************************************************)
(* convert_list: '[' on entry, then one iteration of the loop per step:    *)
(* 'e' ends the list with ']'; any other char is pushed back and           *)
(* convert_value is called for the element.                                *)
(***************************************************************************)
\* convert_list entered without its '[' written.
ConvertListOpenSilent ==
    /\ Running("convert_list", "open")
    /\ output' = output
    /\ stack' = SetTop([Top EXCEPT !.pc = "loop", !.output = 0])
    /\ UNCHANGED <<input, charSigned, pos, slot, status, eofReads,
                   lastGot, ungets, lastUngot, lenBufIdx>>

ConvertListOpen ==
    /\ Running("convert_list", "open")
    /\ output' = Recorded(OutputCharacter(output, CH_lbracket))
    /\ stack' = SetTop([Top EXCEPT !.pc = "loop", !.output = 0])
    /\ UNCHANGED <<input, charSigned, pos, slot, status, eofReads,
                   lastGot, ungets, lastUngot, lenBufIdx>>

ConvertList ==
    /\ Running("convert_list", "loop")
    /\ \E g \in {GetCharacter(slot, pos)} : \E c \in {ToChar(g.raw)} :
           /\ CountEofs(IF g.eof THEN 1 ELSE 0)
           /\ pos' = g.pos
           /\ IF c = CH_e
                THEN /\ slot' = g.slot
                     /\ Got(c, FALSE)
                     /\ output' = Recorded(OutputCharacter(output, CH_rbracket))
                     /\ stack' = Return
                ELSE /\ slot' = UngetCharacter(g.slot, c)
                     /\ Got(c, TRUE)
                     /\ output' = Recorded(Separator(output, Top.output))
                     /\ stack' = Append(SetTop([Top EXCEPT !.output = 1]),
                                        Frame("convert_value", "start",
                                              Consumed(pos', slot'), Len(output')))
    /\ UNCHANGED <<input, charSigned, status, lenBufIdx>>

(***************************************************************************)
(* convert_dictionary: as convert_list, with two convert_value calls per   *)
(* iteration and a ':' written between them.                               *)
(***************************************************************************)
ConvertDictionaryOpen ==
    /\ Running("convert_dictionary", "open")
    /\ output' = Recorded(OutputCharacter(output, CH_lbrace))
    /\ stack' = SetTop([Top EXCEPT !.pc = "loop", !.output = 0])
    /\ UNCHANGED <<input, charSigned, pos, slot, status, eofReads,
                   lastGot, ungets, lastUngot, lenBufIdx>>

\* The loop handing each key to convert_string instead of convert_value.
ConvertDictionaryStringKeys ==
    /\ Running("convert_dictionary", "loop")
    /\ \E g \in {GetCharacter(slot, pos)} : \E c \in {ToChar(g.raw)} :
           /\ CountEofs(IF g.eof THEN 1 ELSE 0)
           /\ pos' = g.pos
           /\ IF c = CH_e
                THEN /\ slot' = g.slot
                     /\ Got(c, FALSE)
                     /\ output' = Recorded(OutputCharacter(output, CH_rbrace))
                     /\ stack' = Return
                ELSE /\ slot' = UngetCharacter(g.slot, c)
                     /\ Got(c, TRUE)
                     /\ output' = Recorded(Separator(output, Top.output))
                     /\ stack' = Append(SetTop([Top EXCEPT !.output = 1,
                                                           !.pc = "colon"]),
                                        Frame("convert_string", "read_count",
                                              Consumed(pos', slot'), Len(output')))
    /\ UNCHANGED <<input, charSigned, status, lenBufIdx>>

ConvertDictionary ==
    /\ Running("convert_dictionary", "loop")
    /\ \E g \in {GetCharacter(slot, pos)} : \E c \in {ToChar(g.raw)} :
           /\ CountEofs(IF g.eof THEN 1 ELSE 0)
           /\ pos' = g.pos
           /\ IF c = CH_e
                THEN /\ slot' = g.slot
                     /\ Got(c, FALSE)
                     /\ output' = Recorded(OutputCharacter(output, CH_rbrace))
                     /\ stack' = Return
                ELSE /\ slot' = UngetCharacter(g.slot, c)
                     /\ Got(c, TRUE)
                     /\ output' = Recorded(Separator(output, Top.output))
                     /\ stack' = Append(SetTop([Top EXCEPT !.output = 1,
                                                           !.pc = "colon"]),
                                        Frame("convert_value", "start",
                                              Consumed(pos', slot'), Len(output')))
    /\ UNCHANGED <<input, charSigned, status, lenBufIdx>>

ConvertDictionaryColon ==
    /\ Running("convert_dictionary", "colon")
    /\ output' = Recorded(OutputCharacter(output, CH_colon))
    /\ UNCHANGED <<input, charSigned, pos, slot, status, eofReads,
                   lastGot, ungets, lastUngot, lenBufIdx>>
    /\ stack' = Call("loop", "convert_value", "start")

(***************************************************************************)
(* convert_string: read_count, '"', one payload char per step, '"'.        *)
(* A write of lenBuf[MAX_INT_LEN] is outside the array: the call either    *)
(* goes on as if the byte had been stored, or the process is killed.       *)
(***************************************************************************)
ConvertStringReadCount ==
    /\ Running("convert_string", "read_count")
    /\ \E r \in {ReadCount(slot, pos)} :
           /\ CountEofs(r.eofs)
           /\ pos' = r.pos
           /\ slot' = r.slot
           /\ Got(r.last, FALSE)
           /\ lenBufIdx' = r.idx
           /\ \/ /\ \E n \in (IF r.n.ub THEN AtoiUBOutcomes ELSE {r.n.val}) :
                      stack' = SetTop([Top EXCEPT !.pc = "payload",
                                                  !.count = n, !.i = 0])
                 /\ output' = Recorded(OutputCharacter(output, CH_quote))
                 /\ status' = status
              \/ /\ r.idx >= MAX_INT_LEN
                 /\ status' = "crashed"
                 /\ UNCHANGED <<stack, output>>
    /\ UNCHANGED <<input, charSigned>>

\* One iteration of the payload loop.  Once the EOF results are no longer
\* counted every remaining iteration reads EOF again and changes nothing
\* but i, so the iterations left are taken in one step: i becomes count.
ConvertStringPayload ==
    /\ Running("convert_string", "payload")
    /\ Below(Top.i, Top.count)
    /\ \E g \in {GetCharacter(slot, pos)} : \E c \in {ToChar(g.raw)} :
           /\ CountEofs(IF g.eof THEN 1 ELSE 0)
           /\ pos' = g.pos
           /\ slot' = g.slot
           /\ Got(c, FALSE)
           /\ \E plain \in PlainOutcomes(c) :
                  output' = Recorded(output \o Escape(c, plain))
           /\ stack' = SetTop([Top EXCEPT !.i = IF g.eof /\ eofReads >= MaxEofReads
                                                   THEN Top.count
                                                   ELSE @ + 1])
    /\ UNCHANGED <<input, charSigned, status, lenBufIdx>>

ConvertStringClose ==
    /\ Running("convert_string", "payload")
    /\ ~Below(Top.i, Top.count)
    /\ output' = Recorded(OutputCharacter(output, CH_quote))
    /\ stack' = Return
    /\ UNCHANGED <<input, charSigned, pos, slot, status, eofReads,
                   lastGot, ungets, lastUngot, lenBufIdx>>

(***************************************************************************)
(* The inputs.  stdin holds any bytes; the model runs the program on       *)
(*  - well-formed bencode values (integers, strings, lists and             *)
(*    dictionaries nested to MaxDepth, of at most MaxValLen bytes),        *)
(*  - every one-byte string 1:<b>, b in 0..255,                            *)
(*  - those values followed by one more byte,                              *)
(*  - every proper prefix of those values (a truncated stream),            *)
(*  - every sequence of at most MaxJunkLen bytes of JunkBytes,             *)
(*  - strings whose length prefix has MAX_INT_LEN - 2 to                   *)
(*    MAX_INT_LEN + MaxOver digits, or a value near or above INT_MAX,      *)
(*  - dictionaries of at most MaxPairs pairs whose keys are values of any  *)
(*    type, and dictionaries that end after a key,                         *)
(*  - lists and dictionaries nested MaxNest deep.                          *)
(***************************************************************************)
MaxDepth == 2
MaxElems == 3
MaxValLen == 11
MaxStrLen == 2
MaxJunkLen == 2
MaxOver == 1
MaxPairs == 2
MaxNest == 5

RECURSIVE Dec(_)
Dec(n) == IF n < 10 THEN <<CH_0 + n>> ELSE Dec(n \div 10) \o <<CH_0 + (n % 10)>>

EncInt(text) == <<CH_i>> \o text \o <<CH_e>>

EncStr(s) == Dec(Len(s)) \o <<CH_colon>> \o s

SeqsUpTo(S, n) == UNION {[1..k -> S] : k \in 0..n}

PayloadBytes == {CH_a, CH_quote, CH_backslash, CH_e, CH_space}

IntTexts == {<<CH_0>>, <<CH_minus, CH_0 + 1>>, <<CH_0 + 4, CH_0 + 2>>}

TopStrings == {EncStr(s) : s \in SeqsUpTo(PayloadBytes, MaxStrLen)}

TopIntegers == {EncInt(t) : t \in IntTexts}

ByteStrings == {EncStr(<<b>>) : b \in 0..255}

KeyLeaves == {EncStr(<<CH_a>>), EncStr(<< >>)}

Leaves == KeyLeaves \cup {EncInt(<<CH_0 + 7>>)}

\* The concatenations of at most k elements of S that are at most room bytes.
RECURSIVE Bodies(_, _, _)
Bodies(S, k, room) ==
    IF k = 0
      THEN {<< >>}
      ELSE LET B == Bodies(S, k - 1, room)
           IN  B \cup {p[1] \o p[2] :
                         p \in {q \in B \X S : Len(q[1]) + Len(q[2]) <= room}}

RECURSIVE Values(_)
Values(d) ==
    IF d = 0
      THEN Leaves
      ELSE LET V == Values(d - 1)
               P == {p[1] \o p[2] : p \in KeyLeaves \X V}
           IN  V \cup {<<CH_l>> \o b \o <<CH_e>> :
                         b \in Bodies(V, MaxElems, MaxValLen - 2)}
                 \cup {<<CH_d>> \o b \o <<CH_e>> :
                         b \in Bodies(P, MaxElems, MaxValLen - 2)}

NestedValues == Values(MaxDepth)

WellFormedInputs == NestedValues \cup TopStrings \cup TopIntegers

TrailBytes == {CH_e}

TrailedInputs == {p[1] \o <<p[2]>> : p \in WellFormedInputs \X TrailBytes}

TruncatedInputs ==
    UNION {{SubSeq(v, 1, n) : n \in 0..(Len(v) - 1)} : v \in WellFormedInputs}

JunkBytes == {CH_i, CH_l, CH_d, CH_e, CH_colon, CH_0, CH_0 + 1, CH_a, 255}

JunkInputs == SeqsUpTo(JunkBytes, MaxJunkLen)

\* A length prefix of n digits: zeros and a final '1' up to MAX_INT_LEN
\* digits, then '2's.
LongDigits(n) ==
    [k \in 1..n |-> IF k > MAX_INT_LEN
                      THEN CH_0 + 2
                      ELSE IF k = n \/ k = MAX_INT_LEN THEN CH_0 + 1 ELSE CH_0]

LongPrefixInputs ==
    {LongDigits(n) \o <<CH_colon, CH_a, CH_a>> :
       n \in (MAX_INT_LEN - 2)..(MAX_INT_LEN + MaxOver)}

\* The length prefixes 2147483647 (INT_MAX), 2147483648 and 4294967297
\* (2^32 + 1), and a string of ten bytes.
BigPrefixInputs ==
    {[k \in 1..10 |-> CH_0 + <<2, 1, 4, 7, 4, 8, 3, 6, 4, 7>>[k]] \o <<CH_colon, CH_a>>,
     [k \in 1..10 |-> CH_0 + <<2, 1, 4, 7, 4, 8, 3, 6, 4, 8>>[k]] \o <<CH_colon, CH_a>>,
     [k \in 1..10 |-> CH_0 + <<4, 2, 9, 4, 9, 6, 7, 2, 9, 7>>[k]] \o <<CH_colon, CH_a>>,
     EncStr([k \in 1..10 |-> CH_a])}

LooseKeys == {EncInt(<<CH_0 + 1>>), <<CH_l, CH_e>>, <<CH_d, CH_e>>, EncStr(<<CH_a>>)}

LooseValues == {EncInt(<<CH_0 + 1>>), EncInt(<<CH_0 + 2>>)}

LooseDictInputs ==
    {<<CH_d>> \o b \o <<CH_e>> :
       b \in Bodies({p[1] \o p[2] : p \in LooseKeys \X LooseValues},
                    MaxPairs, 6 * MaxPairs)}

\* A dictionary whose last key is followed by 'e', alone or with more bytes.
OddDictInputs ==
    {<<CH_d>> \o p[1] \o <<CH_e>> \o p[2] :
       p \in KeyLeaves \X {<< >>, <<CH_0, CH_colon, CH_e>>, <<CH_colon, CH_e>>}}

\* The empty string wrapped n times in a list or in a dictionary under the
\* key "".
RECURSIVE Nested(_)
Nested(n) ==
    IF n = 0
      THEN {EncStr(<< >>)}
      ELSE {<<CH_l>> \o v \o <<CH_e>> : v \in Nested(n - 1)}
             \cup {<<CH_d>> \o EncStr(<< >>) \o v \o <<CH_e>> : v \in Nested(n - 1)}

DeepInputs == Nested(MaxNest)

Inputs == WellFormedInputs \cup ByteStrings \cup TrailedInputs
            \cup TruncatedInputs \cup JunkInputs
            \cup LongPrefixInputs \cup BigPrefixInputs
            \cup LooseDictInputs \cup OddDictInputs \cup DeepInputs

Init ==
    /\ input \in Inputs
    /\ charSigned \in BOOLEAN
    /\ pos = 1
    /\ slot = << >>
    /\ output = << >>
    /\ stack = <<Frame("main", "call", 0, 0)>>
    /\ status = "running"
    /\ eofReads = 0
    /\ lastGot = NoChar
    /\ ungets = 0
    /\ lastUngot = NoChar
    /\ lenBufIdx = 0

Next ==
    \/ MainCall
    \/ MainReturn
    \/ ConvertValue
    \/ ConvertValueReturn
    \/ ConvertInteger
    \/ ConvertListOpen
    \/ ConvertList
    \/ ConvertDictionaryOpen
    \/ ConvertDictionary
    \/ ConvertDictionaryColon
    \/ ConvertStringReadCount
    \/ ConvertStringPayload
    \/ ConvertStringClose

Spec == Init /\ [][Next]_vars

\* The program is one sequential process: while a step is possible, one is taken.
FairSpec == Spec /\ WF_vars(Next)

(***************************************************************************)
(* The reference: the bencode grammar and its JSON equivalent, written as  *)
(* a parser of a byte sequence that shares nothing with the converter      *)
(* above.  A value is                                                      *)
(*   an integer   i<N>e, N a decimal number without leading zeros,         *)
(*   a string     <n>:<n bytes>, n a decimal number without leading zeros, *)
(*   a list       l<value>*e,                                              *)
(*   a dictionary d(<string><value>)*e.                                    *)
(* RefValue(s, p) parses the value that starts at s[p]: ok says whether    *)
(* there is one, next is the index after it, json its JSON equivalent,     *)
(* kind its type and items the JSON of its elements (of a dictionary: key, *)
(* value, key, value, ...).                                                *)
(***************************************************************************)
RefHex == <<48, 49, 50, 51, 52, 53, 54, 55, 56, 57, 97, 98, 99, 100, 101, 102>>

RefEscapeByte(b) ==
    IF b = 34 \/ b = 92
      THEN <<92, b>>
      ELSE IF 32 <= b /\ b <= 126
        THEN <<b>>
        ELSE <<92, 117, 48, 48, RefHex[(b \div 16) + 1], RefHex[(b % 16) + 1]>>

RECURSIVE RefEscape(_)
RefEscape(s) ==
    IF s = << >> THEN << >> ELSE RefEscapeByte(Head(s)) \o RefEscape(Tail(s))

RefFail == [ok |-> FALSE, next |-> 0, json |-> << >>, kind |-> "none", items |-> << >>]

RefAllDigits(t) == t # << >> /\ \A k \in 1..Len(t) : 48 <= t[k] /\ t[k] <= 57

\* A decimal number without leading zeros.
RefNumber(t) == RefAllDigits(t) /\ (Len(t) > 1 => t[1] # 48)

RECURSIVE RefNat(_)
RefNat(t) == IF t = << >> THEN 0 ELSE RefNat(SubSeq(t, 1, Len(t) - 1)) * 10 + (t[Len(t)] - 48)

\* The first index from p on where s holds byte b; 0 if there is none.
RefFind(s, p, b) ==
    LET at == {k \in p..Len(s) : s[k] = b}
    IN  IF at = {} THEN 0 ELSE CHOOSE k \in at : \A j \in at : k <= j

RefInteger(s, p) ==
    LET q == RefFind(s, p + 1, 101)
        t == SubSeq(s, p + 1, q - 1)
        u == IF t # << >> /\ t[1] = 45 THEN Tail(t) ELSE t
    IN  IF q # 0 /\ RefNumber(u) /\ ~(u = <<48>> /\ t # u)
          THEN [ok |-> TRUE, next |-> q + 1, json |-> t, kind |-> "integer",
                items |-> << >>]
          ELSE RefFail

RefString(s, p) ==
    LET q == RefFind(s, p, 58)
        t == SubSeq(s, p, q - 1)
    IN  IF q # 0 /\ RefNumber(t) /\ Len(t) <= 4 /\ q + RefNat(t) <= Len(s)
          THEN [ok |-> TRUE, next |-> q + RefNat(t) + 1,
                json |-> <<34>> \o RefEscape(SubSeq(s, q + 1, q + RefNat(t))) \o <<34>>,
                kind |-> "string", items |-> << >>]
          ELSE RefFail

\* The texts of items with a ',' between each two groups of `group` texts,
\* and a ':' between the texts of a group.
RECURSIVE RefJoin(_, _, _)
RefJoin(items, k, group) ==
    IF k > Len(items)
      THEN << >>
      ELSE (IF k = 1 THEN << >> ELSE IF (k - 1) % group = 0 THEN <<44>> ELSE <<58>>)
             \o items[k] \o RefJoin(items, k + 1, group)

RECURSIVE RefValue(_, _), RefElements(_, _, _, _)
RefValue(s, p) ==
    IF p > Len(s)
      THEN RefFail
      ELSE IF s[p] = 105
        THEN RefInteger(s, p)
        ELSE IF s[p] = 108
          THEN LET r == RefElements(s, p + 1, << >>, FALSE)
               IN  IF r.ok
                     THEN [r EXCEPT !.kind = "list",
                                    !.json = <<91>> \o RefJoin(r.items, 1, 1) \o <<93>>]
                     ELSE RefFail
          ELSE IF s[p] = 100
            THEN LET r == RefElements(s, p + 1, << >>, TRUE)
                 IN  IF r.ok
                       THEN [r EXCEPT !.kind = "dictionary",
                                      !.json = <<123>> \o RefJoin(r.items, 1, 2) \o <<125>>]
                       ELSE RefFail
            ELSE RefString(s, p)

\* The elements from s[p] up to the closing 'e'; in a dictionary every
\* element at an odd place (a key) is a string, and the elements pair up.
RefElements(s, p, items, dict) ==
    IF p > Len(s)
      THEN RefFail
      ELSE IF s[p] = 101
        THEN IF dict /\ Len(items) % 2 = 1
               THEN RefFail
               ELSE [ok |-> TRUE, next |-> p + 1, json |-> << >>, kind |-> "none",
                     items |-> items]
        ELSE LET v == RefValue(s, p)
             IN  IF v.ok /\ (dict /\ Len(items) % 2 = 0 => v.kind = "string")
                   THEN RefElements(s, v.next, Append(items, v.json), dict)
                   ELSE RefFail

\* The whole of s is one well-formed value.
RefWhole(s) == RefValue(s, 1).ok /\ RefValue(s, 1).next = Len(s) + 1

(***************************************************************************)
(* What a returning convert_value call has done: the value it was called   *)
(* on, the bytes it wrote and the number of bytes it consumed.             *)
(***************************************************************************)
Returning == Running("convert_value", "return")

Called == RefValue(input, Top.inAt + 1)

Written == SubSeq(output, Top.outAt + 1, Len(output))

Read == Consumed(pos, slot) - Top.inAt

Exited == status = "exit"

(***************************************************************************)
(* Properties.                                                             *)
(***************************************************************************)

\* C1: a convert_value call made on a well-formed value returns having
\* consumed exactly the bytes of that value (the closing 'e' of a list or
\* dictionary included, no byte after it) and having written exactly its
\* JSON equivalent.
C1_ExactValue ==
    Returning /\ Called.ok =>
        /\ Written = Called.json
        /\ Consumed(pos, slot) = Called.next - 1

\* The program has just been started on an input that is one well-formed value.
StartedOnValue ==
    /\ status = "running"
    /\ Len(stack) = 1
    /\ Top.pc = "call"
    /\ RefWhole(input)

\* C2: started on an input that is exactly one well-formed value, the
\* program terminates: main returns, and with it every converter call.
C2_Terminates == StartedOnValue ~> (Exited /\ stack = << >>)

\* A dictionary holding a list has been converted and the program has ended.
C2_Witness ==
    /\ Exited
    /\ RefWhole(input)
    /\ input[1] = CH_d
    /\ \E k \in 1..Len(output) : output[k] = CH_lbracket

\* C3: on every input, well-formed or truncated, the process ends (the
\* claim: by exiting with success).
C3_RunsToCompletion == <>(status \in {"exit", "crashed"})

\* The pushback as convert_list and convert_value use it one after the
\* other: convert_string's read_count is about to read the byte that
\* convert_list peeked and pushed back and convert_value pushed back again.
C4_Witness ==
    /\ Running("convert_string", "read_count")
    /\ Len(stack) >= 4
    /\ stack[Len(stack) - 2].fn = "convert_list"
    /\ Len(slot) = 1
    /\ lastUngot = CH_0 + 1

\* C4: the pushback never holds more than one byte, at most one
\* unget_character call is made between two get_character calls, and its
\* argument is the char the most recent get_character returned.
C4_SinglePushback ==
    /\ Len(slot) <= 1
    /\ ungets <= 1
    /\ ungets = 1 => lastUngot = lastGot

\* The bytes of input between the 'i' and the 'e' of the integer a
\* returning convert_value call was made on.
IntegerText == SubSeq(input, Top.inAt + 2, Called.next - 2)

\* C5: for a valid integer i<N>e the bytes written are exactly the bytes
\* of <N>, and the 'e' is consumed.
C5_IntegerVerbatim ==
    Returning /\ Called.ok /\ Called.kind = "integer" =>
        /\ Written = IntegerText
        /\ Consumed(pos, slot) = Called.next - 1

C5_Witness ==
    /\ Returning
    /\ Called.ok
    /\ Called.kind = "integer"
    /\ Written = <<CH_minus, CH_0 + 1>>

(***************************************************************************)
(* A JSON reader that re-encodes what it reads as bencode: a number as     *)
(* i<N>e, a string as <n>:<bytes>, an array as l...e and an object as      *)
(* d...e with its members in the order written.  JValue(js, p) reads the   *)
(* JSON value that starts at js[p]; b is its bencoding.                    *)
(***************************************************************************)
JAt(js, p) == IF 1 <= p /\ p <= Len(js) THEN js[p] ELSE EOF

JFail == [ok |-> FALSE, next |-> 0, b |-> << >>, kind |-> "none"]

JHexValue(h) ==
    IF 48 <= h /\ h <= 57 THEN h - 48
    ELSE IF 97 <= h /\ h <= 102 THEN h - 87
    ELSE IF 65 <= h /\ h <= 70 THEN h - 55
    ELSE EOF

\* The bytes of the string literal whose opening '"' is before js[p].
RECURSIVE JChars(_, _, _)
JChars(js, p, acc) ==
    LET c == JAt(js, p)
    IN  IF c = 34
          THEN [ok |-> TRUE, next |-> p + 1, b |-> acc, kind |-> "string"]
          ELSE IF c = 92
            THEN IF JAt(js, p + 1) \in {34, 92, 47}
                   THEN JChars(js, p + 2, Append(acc, JAt(js, p + 1)))
                   ELSE IF /\ JAt(js, p + 1) = 117
                           /\ JAt(js, p + 2) = 48
                           /\ JAt(js, p + 3) = 48
                           /\ JHexValue(JAt(js, p + 4)) # EOF
                           /\ JHexValue(JAt(js, p + 5)) # EOF
                     THEN JChars(js, p + 6,
                                 Append(acc, JHexValue(JAt(js, p + 4)) * 16
                                               + JHexValue(JAt(js, p + 5))))
                     ELSE JFail
            ELSE IF c < 32
              THEN JFail
              ELSE JChars(js, p + 1, Append(acc, c))

\* The number of digits from js[p] on.
RECURSIVE JDigits(_, _)
JDigits(js, p) ==
    IF 48 <= JAt(js, p) /\ JAt(js, p) <= 57 THEN 1 + JDigits(js, p + 1) ELSE 0

RECURSIVE JNat(_, _, _)
JNat(js, p, n) == IF n = 0 THEN 0 ELSE JNat(js, p, n - 1) * 10 + (js[p + n - 1] - 48)

JNumber(js, p) ==
    LET neg == JAt(js, p) = 45
        q == IF neg THEN p + 1 ELSE p
        n == JDigits(js, q)
    IN  IF n = 0 \/ n > 9 \/ (n > 1 /\ js[q] = 48)
          THEN JFail
          ELSE [ok |-> TRUE, next |-> q + n,
                b |-> <<105>> \o (IF neg THEN <<45>> ELSE << >>)
                        \o Dec(JNat(js, q, n)) \o <<101>>,
                kind |-> "number"]

RECURSIVE JValue(_, _), JMembers(_, _, _, _)
JValue(js, p) ==
    LET c == JAt(js, p)
    IN  IF c = 34
          THEN LET r == JChars(js, p + 1, << >>)
               IN  IF r.ok
                     THEN [r EXCEPT !.b = Dec(Len(r.b)) \o <<58>> \o r.b]
                     ELSE JFail
          ELSE IF c = 91
            THEN IF JAt(js, p + 1) = 93
                   THEN [ok |-> TRUE, next |-> p + 2, b |-> <<108, 101>>, kind |-> "array"]
                   ELSE JMembers(js, p + 1, <<108>>, FALSE)
            ELSE IF c = 123
              THEN IF JAt(js, p + 1) = 125
                     THEN [ok |-> TRUE, next |-> p + 2, b |-> <<100, 101>>,
                           kind |-> "object"]
                     ELSE JMembers(js, p + 1, <<100>>, TRUE)
              ELSE JNumber(js, p)

\* The members of an array or object from js[p] on, acc being the bencoding
\* so far; a member of an object is a string, ':' and a value.
JMembers(js, p, acc, object) ==
    LET k == IF object THEN JValue(js, p) ELSE JFail
        v == IF object THEN JValue(js, k.next + 1) ELSE JValue(js, p)
        good == IF object
                  THEN k.ok /\ k.kind = "string" /\ JAt(js, k.next) = 58 /\ v.ok
                  ELSE v.ok
        b == acc \o (IF object THEN k.b ELSE << >>) \o v.b
    IN  IF ~good
          THEN JFail
          ELSE IF JAt(js, v.next) = 44
            THEN JMembers(js, v.next + 1, b, object)
            ELSE IF JAt(js, v.next) = (IF object THEN 125 ELSE 93)
              THEN [ok |-> TRUE, next |-> v.next + 1, b |-> b \o <<101>>,
                    kind |-> IF object THEN "object" ELSE "array"]
              ELSE JFail

\* The bencoding of the JSON text js; << >> if js is not one JSON value.
JsonToBencode(js) ==
    IF JValue(js, 1).ok /\ JValue(js, 1).next = Len(js) + 1
      THEN JValue(js, 1).b
      ELSE << >>

Printable(t) == \A k \in 1..Len(t) : 32 <= t[k] /\ t[k] <= 126

\* The payload of the string a returning convert_value call was made on.
Payload ==
    SubSeq(input, RefFind(input, Top.inAt + 1, 58) + 1, Called.next - 1)

\* The payload with a '\' before each '"' and '\'.
RECURSIVE Backslashed(_)
Backslashed(t) ==
    IF t = << >>
      THEN << >>
      ELSE (IF Head(t) \in {34, 92} THEN <<92, Head(t)>> ELSE <<Head(t)>>)
             \o Backslashed(Tail(t))

\* C6: for a valid string <n>:<bytes> of printable ASCII bytes the bytes
\* written are '"', the payload with a '\' before each '"' and '\', and '"';
\* un-escaping what is between the quotes gives the payload back, and
\* exactly the n payload bytes are read.
C6_PrintableString ==
    Returning /\ Called.ok /\ Called.kind = "string" /\ Printable(Payload) =>
        /\ Written = <<34>> \o Backslashed(Payload) \o <<34>>
        /\ JChars(Written, 2, << >>).ok
        /\ JChars(Written, 2, << >>).b = Payload
        /\ JChars(Written, 2, << >>).next = Len(Written) + 1
        /\ Consumed(pos, slot) = Called.next - 1

C6_Witness ==
    /\ Returning
    /\ Called.ok
    /\ Called.kind = "string"
    /\ Payload = <<CH_backslash, CH_quote>>

\* C7: for a valid list of k elements the bytes written are '[', the JSON
\* of the elements in input order with one ',' before each but the first,
\* and ']': no ',' after '[' or before ']', and "[]" for the empty list.
C7_ListElements ==
    Returning /\ Called.ok /\ Called.kind = "list" =>
        /\ Written = <<91>> \o RefJoin(Called.items, 1, 1) \o <<93>>
        /\ Written[2] # 44
        /\ Written[Len(Written) - 1] # 44
        /\ Called.items = << >> => Written = <<91, 93>>
        /\ Consumed(pos, slot) = Called.next - 1

\* A list of three elements, the second one a list, has been converted.
C7_Witness ==
    /\ Returning
    /\ Called.ok
    /\ Called.kind = "list"
    /\ Len(Called.items) = 3
    /\ Called.items[2] = <<91, 93>>
    /\ Called.items[1] # Called.items[3]

\* C8: for a valid dictionary of k pairs the bytes written are '{', then
\* for each pair in input order the JSON of the key, ':' and the JSON of
\* the value, with one ',' before each pair but the first, and '}'; "{}"
\* for the empty dictionary.
C8_DictionaryPairs ==
    Returning /\ Called.ok /\ Called.kind = "dictionary" =>
        /\ Written = <<123>> \o RefJoin(Called.items, 1, 2) \o <<125>>
        /\ Called.items = << >> => Written = <<123, 125>>
        /\ Consumed(pos, slot) = Called.next - 1

\* A dictionary of two pairs with different keys has been converted.
C8_Witness ==
    /\ Returning
    /\ Called.ok
    /\ Called.kind = "dictionary"
    /\ Len(Called.items) = 4
    /\ Called.items[1] # Called.items[3]

\* C9: the first payload byte b read by convert_string is written as '\'
\* and b if b is '"' or '\', as b alone if b is alphanumeric, punctuation
\* or the space, and as \u00XX, XX the lowercase hexadecimal value of b,
\* otherwise.
C9_EscapeRule ==
    Running("convert_string", "payload") /\ Top.i = 1 /\ eofReads = 0 =>
        SubSeq(output, Top.outAt + 2, Len(output)) = RefEscapeByte(input[pos - 1])

\* C10: for a valid value of printable ASCII bytes, reading the JSON
\* written and re-encoding it as bencode gives the input back.
C10_RoundTrip ==
    Exited /\ RefWhole(input) /\ Printable(input) => JsonToBencode(output) = input

\* A dictionary holding a string and a list has made the round trip.
C10_Witness ==
    /\ Exited
    /\ RefWhole(input)
    /\ Printable(input)
    /\ JsonToBencode(output) = input
    /\ input[1] = CH_d
    /\ \E k \in 1..Len(input) : input[k] = CH_l
    /\ \E k \in 1..Len(input) : input[k] = CH_a

(***************************************************************************)
(* Length prefixes.  A size_t can exceed what the model's integers hold,   *)
(* so counts are compared as decimal texts.                                *)
(***************************************************************************)

\* The number of decimal digits from s[p] on.
DigitRun(s, p) ==
    LET stop == {k \in p..(Len(s) + 1) :
                   k < 1 \/ k > Len(s) \/ s[k] < 48 \/ s[k] > 57}
    IN  (CHOOSE k \in stop : \A j \in stop : k <= j) - p

\* The digits t without their leading zeros (one digit is kept).
RECURSIVE StripZeros(_)
StripZeros(t) == IF Len(t) > 1 /\ t[1] = 48 THEN StripZeros(Tail(t)) ELSE t

\* The nine decimal digits of x, 0 <= x < 10^9.
Pad9(x) == [k \in 1..9 |-> 48 + ((x \div (10 ^ (9 - k))) % 10)]

\* The decimal text of the size_t that the number n stands for: n itself
\* when n >= 0, and 2^64 + n = 18 446744073 709551616 + n when n < 0.
SizeText(n) ==
    IF n >= 0
      THEN Dec(n)
      ELSE LET low == 709551616 + n
               b == IF low >= 0 THEN 0 ELSE IF low + 1000000000 >= 0 THEN 1 ELSE 2
           IN  <<49, 56>> \o Pad9(446744073 - b) \o Pad9(low + b * 1000000000)

\* convert_string has just returned from read_count.
CountRead == Running("convert_string", "payload") /\ Top.i = 0

\* The digits at the start of the string convert_string was called on, and
\* whether a ':' follows them.
PrefixLen == DigitRun(input, Top.inAt + 1)

PrefixEnded ==
    /\ Top.inAt + PrefixLen + 1 <= Len(input)
    /\ input[Top.inAt + PrefixLen + 1] = 58

\* C11: when the length prefix has more than MAX_INT_LEN digits before its
\* ':', read_count returns having consumed the digits and the ':' (the
\* payload starts right after the ':'), and the count is the value of the
\* first MAX_INT_LEN digits.
C11_LongPrefixSkipped ==
    CountRead /\ PrefixLen > MAX_INT_LEN /\ PrefixEnded =>
        /\ Consumed(pos, slot) = Top.inAt + PrefixLen + 1
        /\ SizeText(Top.count)
             = StripZeros(SubSeq(input, Top.inAt + 1, Top.inAt + MAX_INT_LEN))

\* C12: every index of lenBuf that read_count writes, the terminating zero
\* included, is below MAX_INT_LEN.
C12_WritesInBounds == lenBufIdx < MAX_INT_LEN

\* C13: a byte of the input that convert_value, convert_list or
\* convert_dictionary has read and passed to unget_character is in the
\* pushback, and the next get_character call returns it.
C13_PushedBackIsNext ==
    ungets = 1 /\ eofReads = 0 =>
        /\ Len(slot) = 1
        /\ GetCharacter(slot, pos).raw = input[pos - 1]
        /\ GetCharacter(slot, pos).pos = pos

\* C14: for a length prefix of 1 to MAX_INT_LEN - 1 digits followed by ':'
\* the count read_count returns is the decimal value of the digits, also
\* when that value is above INT_MAX, and convert_string reads the payload
\* bytes one by one after the ':', never more than count of them.
C14_CountIsPrefixValue ==
    /\ Running("convert_string", "payload")
    /\ 1 <= PrefixLen
    /\ PrefixLen < MAX_INT_LEN
    /\ PrefixEnded
    => /\ SizeText(Top.count)
            = StripZeros(SubSeq(input, Top.inAt + 1, Top.inAt + PrefixLen))
       /\ ~Below(Top.count, Top.i)
       /\ eofReads = 0 => Consumed(pos, slot) = Top.inAt + PrefixLen + 1 + Top.i

(***************************************************************************)
(* Dictionaries whose keys are values of any type.                         *)
(***************************************************************************)

\* The values between the 'd' and the closing 'e' of s, s being a 'd', an
\* even number of well-formed values and an 'e'.
LooseBody(s) ==
    IF Len(s) >= 2 /\ s[1] = 100 THEN RefElements(s, 2, << >>, FALSE) ELSE RefFail

LooseDict(s) ==
    /\ LooseBody(s).ok
    /\ LooseBody(s).next = Len(s) + 1
    /\ Len(LooseBody(s).items) % 2 = 0

\* '{', the pairs first:second joined by ',', and '}'.
LooseJson(s) == <<123>> \o RefJoin(LooseBody(s).items, 1, 2) \o <<125>>

StartedOnLooseDict ==
    /\ status = "running"
    /\ Len(stack) = 1
    /\ Top.pc = "call"
    /\ LooseDict(input)

\* C15: started on a dictionary whose body is an even number of well-formed
\* values of any type, the program terminates having consumed the whole
\* dictionary and written each pair as the JSON of its first value, ':' and
\* the JSON of its second value.
C15_AnyKeyType ==
    StartedOnLooseDict ~>
        (Exited /\ output = LooseJson(input) /\ Consumed(pos, slot) = Len(input))

\* dlei1ee has been converted to {[]:1}.
C15_Witness ==
    /\ Exited
    /\ LooseDict(input)
    /\ input = <<100, 108, 101, 105, 49, 101, 101>>
    /\ output = <<123, 91, 93, 58, 49, 125>>

(***************************************************************************)
(* Nesting.                                                                *)
(***************************************************************************)

\* The brackets of the JSON text out[k..] that are opened and not closed,
\* outermost first, `open` being those open before out[k]; brackets inside
\* a string literal do not count.  <<0>> if a closing bracket does not
\* match the innermost open one.
RECURSIVE Unclosed(_, _, _, _)
Unclosed(out, k, open, inString) ==
    IF k > Len(out)
      THEN open
      ELSE IF inString
        THEN IF out[k] = 92
               THEN Unclosed(out, k + 2, open, TRUE)
               ELSE Unclosed(out, k + 1, open, out[k] # 34)
        ELSE IF out[k] = 34
          THEN Unclosed(out, k + 1, open, TRUE)
          ELSE IF out[k] = 91 \/ out[k] = 123
            THEN Unclosed(out, k + 1, Append(open, out[k]), FALSE)
            ELSE IF out[k] = 93 \/ out[k] = 125
              THEN IF open # << >> /\ open[Len(open)] = out[k] - 2
                     THEN Unclosed(out, k + 1, SubSeq(open, 1, Len(open) - 1), FALSE)
                     ELSE <<0>>
              ELSE Unclosed(out, k + 1, open, FALSE)

\* A convert_list or convert_dictionary call that has written its opening
\* bracket and not returned.
IsOpenContainer(f) ==
    f.fn \in {"convert_list", "convert_dictionary"} /\ f.pc # "open"

\* The opening brackets of those calls, from the outermost call in.
ActiveBrackets ==
    LET active == SelectSeq(stack, IsOpenContainer)
    IN  [k \in 1..Len(active) |-> IF active[k].fn = "convert_list" THEN 91 ELSE 123]

\* C16: at every point of the conversion of a well-formed value the
\* brackets written and not yet closed are, in order, the '[' and '{' of
\* the convert_list and convert_dictionary calls on the call stack; a
\* returned call has closed its bracket with the matching one, and at the
\* end nothing is left open.
C16_Nesting ==
    RefWhole(input) => Unclosed(output, 1, << >>, FALSE) = ActiveBrackets

\* Five containers, lists and dictionaries, are open at once.
C16_Witness ==
    /\ RefWhole(input)
    /\ Len(ActiveBrackets) >= 5
    /\ \E k \in 1..4 : ActiveBrackets[k] = 91 /\ ActiveBrackets[k + 1] = 123
    /\ \E k \in 1..4 : ActiveBrackets[k] = 123 /\ ActiveBrackets[k + 1] = 91
    /\ Unclosed(output, 1, << >>, FALSE) = ActiveBrackets

\* C17: whenever a convert_value call returns, on any input, the pushback
\* is empty: what was pushed back during the call has been read again.
C17_EmptyPushbackAtReturn == Returning => slot = << >>

\* A nested convert_value call returns on an input that is not a
\* well-formed value, after bytes were pushed back.
C17_Witness ==
    /\ Returning
    /\ Len(stack) > 2
    /\ ~RefWhole(input)
    /\ lastUngot # NoChar
    /\ slot = << >>

(***************************************************************************)
(* A dictionary that ends after a key.                                     *)
(***************************************************************************)

\* stack[k] is the second convert_value call of a pair of a dictionary, it
\* was made where the input holds an 'e', and it has read its type tag.
SecondOnE(k) ==
    /\ stack[k].fn = "convert_value"
    /\ stack[k].pc = "return"
    /\ stack[k - 1].fn = "convert_dictionary"
    /\ stack[k - 1].pc = "loop"
    /\ stack[k].inAt + 1 <= Len(input)
    /\ input[stack[k].inAt + 1] = 101

\* C18: the 'e' that follows a key is read by the second convert_value
\* call of the pair, pushed back and read by convert_string's read_count as
\* the first char of a length prefix; the dictionary is not closed there:
\* what is written after the ':' is the '"' of a string, not '}'.
C18_NoCloseAfterKey ==
    \A k \in 2..Len(stack) :
        status = "running" /\ SecondOnE(k) =>
            /\ output[stack[k].outAt] = 58
            /\ Len(output) > stack[k].outAt => output[stack[k].outAt + 1] = 34
            /\ k < Len(stack) => stack[k + 1].fn = "convert_string"
            /\ k < Len(stack) /\ stack[k + 1].pc = "read_count" =>
                   /\ slot = <<101>>
                   /\ lastUngot = 101
                   /\ Consumed(pos, slot) = stack[k].inAt
            /\ k < Len(stack) /\ stack[k + 1].pc = "payload" =>
                   /\ lenBufIdx >= 1
                   /\ Consumed(pos, slot) > stack[k].inAt

\* convert_string has read a length prefix that starts with the 'e' after
\* the key "a" and has written its '"' after the ':'.
C18_Witness ==
    /\ Running("convert_string", "payload")
    /\ Len(stack) >= 4
    /\ SecondOnE(Len(stack) - 1)
    /\ output = <<123, 34, 97, 34, 58, 34>>

=============================================================================
